---- MODULE Spec2Model ----
(***************************************************************************)
(* labgrid: SSHDriver (remote transport session) and                       *)
(* RawNetworkInterfaceDriver (capture / replay process controller).        *)
(*                                                                         *)
(* Every public method of a driver is one action.  A method that blocks    *)
(* without bound on a child process (Popen.wait() / communicate() with no  *)
(* timeout) is split at that wait: the driver's program counter records    *)
(* where the call is parked and the call resumes once the child exited.    *)
(* The variable "last" is the observable outcome of the most recent call:  *)
(* which method, what it raised, which external tools and file operations  *)
(* it performed, and the attributes it saw when it was entered.            *)
(***************************************************************************)
EXTENDS Integers, FiniteSets, Sequences, TLC

\* number of scratch directory names tempfile.mkdtemp may hand out
MaxDirs == 2
\* number of capture / replay child processes that exist at a time
MaxProcs == 2
\* number of record() scopes, and of replay() scopes, open at a time
MaxNest == 1

\* an attribute that was never assigned (self.control, self.tmpdir)
Unset == -1
\* the control path "" that _check_master returns for a reused channel
NoControl == 0
\* self._record_handle / self._replay_handle holding None
None == 0

VARIABLES
    sshState,       \* activation state of the SSHDriver
    sshPc,          \* where the SSHDriver's caller is parked
    keepalive,      \* self._keepalive: "None", or the Popen's status
    kaOrphan,       \* a keepalive child is alive but no longer referenced
    control,        \* self.control
    tmpdir,         \* self.tmpdir
    dirs,           \* scratch directories that exist on disk
    masters,        \* scratch directories whose control master is alive
    extMaster,      \* a control channel of the user's own ssh setup is live
    netState,       \* activation state of the RawNetworkInterfaceDriver
    netPc,          \* where the RawNetworkInterfaceDriver's caller is parked
    record_handle,  \* self._record_handle
    replay_handle,  \* self._replay_handle
    proc,           \* the capture / replay children spawned so far
    operstate,      \* /sys/class/net/<ifname>/operstate
    ifaceNet,       \* isinstance(self.iface, NetworkResource)
    recScopes,      \* open record() scopes, innermost last: filename is None
    repScopes,      \* open replay() scopes, innermost last: timeout is not None
    last            \* outcome of the most recent driver call

sshVars == <<sshState, sshPc, keepalive, kaOrphan, control, tmpdir, dirs, masters, extMaster>>
netVars == <<netState, netPc, record_handle, replay_handle, proc, operstate, ifaceNet, recScopes, repScopes>>
vars == <<sshVars, netVars, last>>

Dirs == 1..MaxDirs
Pids == 1..MaxProcs

\* the RawNetworkInterfaceDriver's caller is inside no call
Idle == [at |-> "idle", kind |-> "none", bounded |-> FALSE, exc |-> "none"]

\* Driver.check_active: the guard every decorated method runs first
CheckActive(state) == state = "ACTIVE"

\* the outcome record of a call; "active", "ka", "ctl", "ext", "rec", "rep"
\* are the values seen on entry, "pid" is the child the call started or
\* stopped, "live" whether that child's stdout is a pipe, "t1" whether the
\* first wait of _stop expired, "rc" an exit status the call saw, "conn"
\* what the master connection process of an activation did, "seq" the
\* effects of a deactivation in the order the code makes them
Call(drv, op, res, fx) ==
    [drv |-> drv, op |-> op, res |-> res, fx |-> fx,
     active |-> IF drv = "ssh" THEN CheckActive(sshState) ELSE CheckActive(netState),
     ka |-> keepalive, ctl |-> control, ext |-> extMaster,
     rec |-> record_handle, rep |-> replay_handle,
     pid |-> None, live |-> FALSE, t1 |-> FALSE, rc |-> 0, conn |-> "none",
     seq |-> <<>>]

(***************************************************************************)
(* SSHDriver                                                               *)
(***************************************************************************)

\* tempfile.mkdtemp: a name that is on disk nowhere and that no attribute
\* or live master still refers to
FreshDirs == Dirs \ (dirs \cup masters \cup {tmpdir, control})
FreshDir == CHOOSE d \in FreshDirs : \A e \in FreshDirs : d <= e

\* what the master connection process of _start_own_master may do
ConnOutcomes == {"exit_nonzero", "timeout", "no_socket", "connected"}

\* _check_master: the exit status of "ssh -O check" is 0
check_master_ok == extMaster

\* _start_keepalive and the rest of on_activate after self.control is set
\* to ctl: line 49 drops the old handle, Popen may fail
StartKeepalive(spawnOk, fx, ctl, conn) ==
    /\ kaOrphan' = (kaOrphan \/ keepalive = "running")
    /\ control' = ctl
    /\ IF spawnOk
       THEN /\ keepalive' = "running"
            /\ sshState' = "ACTIVE"
            /\ last' = [Call("ssh", "activate", "ok", fx \cup {"keepalive"})
                            EXCEPT !.conn = conn]
       ELSE /\ keepalive' = "None"
            /\ UNCHANGED sshState
            /\ last' = [Call("ssh", "activate", "OSError", fx) EXCEPT !.conn = conn]

\* _start_own_master accepting a connection process that left no socket
ConnectFails_NoSocketCheck(conn) == conn = "exit_nonzero"

\* _start_own_master raises: the connection process exited non-zero, or it
\* exited and the control socket is not there
ConnectFails(conn) == conn \in {"exit_nonzero", "no_socket"}

\* SSHDriver.on_activate, called by activate() on a driver that is not ACTIVE
on_activate(conn, spawnOk) ==
    /\ sshPc = "idle"
    /\ ~CheckActive(sshState)
    /\ IF check_master_ok
       THEN /\ StartKeepalive(spawnOk, {"ssh-check"}, NoControl, "none")
            /\ UNCHANGED <<sshPc, tmpdir, dirs, masters>>
       ELSE /\ FreshDirs # {}
            /\ tmpdir' = FreshDir
            /\ dirs' = dirs \cup {FreshDir}
            /\ LET fx == {"ssh-check", "mkdtemp", "ssh-master"} IN
               CASE conn = "timeout" ->
                      /\ sshPc' = "connect_wait"
                      /\ last' = [Call("ssh", "activate", "pending", fx)
                                      EXCEPT !.conn = conn]
                      /\ UNCHANGED <<sshState, keepalive, kaOrphan, control, masters>>
                 [] ConnectFails(conn) ->
                      /\ last' = [Call("ssh", "activate", "ExecutionError", fx)
                                      EXCEPT !.conn = conn]
                      /\ UNCHANGED <<sshPc, sshState, keepalive, kaOrphan, control, masters>>
                 [] OTHER ->
                      /\ masters' = IF conn = "connected"
                                    THEN masters \cup {FreshDir} ELSE masters
                      /\ StartKeepalive(spawnOk, fx, FreshDir, conn)
                      /\ UNCHANGED sshPc
    /\ UNCHANGED <<extMaster, netVars>>

\* the master connection process exits while the handler of the expired
\* 30 s wait is blocked in self.process.wait() (line 87); it may have put a
\* master into the background by then
ConnectionExits(late) ==
    /\ sshPc = "connect_wait"
    /\ sshPc' = "connect_raise"
    /\ masters' = IF late THEN masters \cup {tmpdir} ELSE masters
    /\ UNCHANGED <<sshState, keepalive, kaOrphan, control, tmpdir, dirs, extMaster,
                   netVars, last>>

\* _start_own_master, lines 84-88: the unbounded wait of the handler has
\* returned and the ExecutionError is raised
connect_wait_returns ==
    /\ sshPc = "connect_raise"
    /\ sshPc' = "idle"
    /\ last' = [last EXCEPT !.res = "ExecutionError"]
    /\ UNCHANGED <<sshState, keepalive, kaOrphan, control, tmpdir, dirs, masters,
                   extMaster, netVars>>

\* _stop_keepalive: kaTimeout is communicate(timeout=60) expiring,
\* waitTimeout is wait(timeout=60) expiring after the kill
StopKeepaliveRes(kaTimeout, waitTimeout) ==
    IF keepalive = "None" THEN "AssertionError"
    ELSE IF keepalive = "running" /\ kaTimeout /\ waitTimeout THEN "TimeoutExpired"
    ELSE "ok"

StopKeepaliveFx(kaTimeout) ==
    IF keepalive = "running" /\ kaTimeout THEN {"kill"} ELSE {}

\* _cleanup_own_master: the exit request is issued whatever self.control
\* holds, then shutil.rmtree(self.tmpdir)
CleanupFx ==
    IF control = Unset THEN {}
    ELSE {"ssh-exit"} \cup (IF tmpdir = Unset THEN {} ELSE {"rmtree"})

\* _stop_keepalive in program order: communicate() closes the pipes of the
\* keepalive and waits, kill() follows when that wait expired
StopKeepaliveSeq(kaTimeout) ==
    IF keepalive = "None" THEN <<>>
    ELSE <<"close">> \o (IF "kill" \in StopKeepaliveFx(kaTimeout) THEN <<"kill">> ELSE <<>>)

\* the exit request of _cleanup_own_master returns non-zero: nothing listens
\* on the control path
ExitRequestFails ==
    IF control = NoControl THEN ~extMaster ELSE control \notin masters

\* _cleanup_own_master in program order: the exit request, logger.info when
\* it failed, rmtree
CleanupSeq ==
    IF control = Unset THEN <<>>
    ELSE <<"ssh-exit">> \o (IF ExitRequestFails THEN <<"log">> ELSE <<>>)
                       \o (IF tmpdir = Unset THEN <<>> ELSE <<"rmtree">>)

\* _cleanup_own_master raising when the exit request returns non-zero
CleanupRes_ExitFatal ==
    IF control = Unset \/ tmpdir = Unset THEN "AttributeError"
    ELSE IF ExitRequestFails THEN "ExecutionError"
    ELSE IF tmpdir \notin dirs THEN "FileNotFoundError"
    ELSE "ok"

CleanupRes ==
    IF control = Unset \/ tmpdir = Unset THEN "AttributeError"
    ELSE IF tmpdir \notin dirs THEN "FileNotFoundError"
    ELSE "ok"

\* SSHDriver.on_deactivate: try: _stop_keepalive() finally: _cleanup_own_master()
on_deactivate(kaTimeout, waitTimeout) ==
    /\ sshPc = "idle"
    /\ LET stopRes == StopKeepaliveRes(kaTimeout, waitTimeout)
           res == IF CleanupRes # "ok" THEN CleanupRes ELSE stopRes
       IN /\ last' = [Call("ssh", "deactivate", res, StopKeepaliveFx(kaTimeout) \cup CleanupFx)
                         EXCEPT !.seq = StopKeepaliveSeq(kaTimeout) \o CleanupSeq]
          /\ sshState' = IF res = "ok" THEN "INACTIVE" ELSE sshState
          /\ kaOrphan' = (kaOrphan \/ stopRes = "TimeoutExpired")
    /\ keepalive' = "None"
    /\ masters' = IF "ssh-exit" \in CleanupFx THEN masters \ {control} ELSE masters
    /\ dirs' = IF "rmtree" \in CleanupFx THEN dirs \ {tmpdir} ELSE dirs
    /\ UNCHANGED <<sshPc, control, tmpdir, extMaster, netVars>>

\* _check_keepalive only testing that there is a handle
check_keepalive_HandleOnly == keepalive # "None"

\* _check_keepalive: self._keepalive.poll() is None
check_keepalive == keepalive = "running"

\* _run raising on a non-zero exit status, as put and get do
run_RaiseOnNonZero(spawnOk, timedOut, rc) ==
    /\ sshPc = "idle"
    /\ last' =
         IF ~CheckActive(sshState) THEN Call("ssh", "run", "InactiveDriverError", {})
         ELSE IF keepalive = "None" THEN Call("ssh", "run", "AttributeError", {})
         ELSE IF ~check_keepalive THEN Call("ssh", "run", "ExecutionError", {})
         ELSE IF ~spawnOk THEN Call("ssh", "run", "ExecutionError", {})
         ELSE IF timedOut THEN Call("ssh", "run", "TimeoutExpired", {"ssh-run"})
         ELSE IF rc # 0 THEN [Call("ssh", "run", "ExecutionError", {"ssh-run"}) EXCEPT !.rc = rc]
         ELSE Call("ssh", "run", "ok", {"ssh-run"})
    /\ UNCHANGED <<sshVars, netVars>>

\* SSHDriver.run -> _run
run(spawnOk, timedOut, rc) ==
    /\ sshPc = "idle"
    /\ last' =
         IF ~CheckActive(sshState) THEN Call("ssh", "run", "InactiveDriverError", {})
         ELSE IF keepalive = "None" THEN Call("ssh", "run", "AttributeError", {})
         ELSE IF ~check_keepalive THEN Call("ssh", "run", "ExecutionError", {})
         ELSE IF ~spawnOk THEN Call("ssh", "run", "ExecutionError", {})
         ELSE IF timedOut THEN Call("ssh", "run", "TimeoutExpired", {"ssh-run"})
         ELSE [Call("ssh", "run", "ok", {"ssh-run"}) EXCEPT !.rc = rc]
    /\ UNCHANGED <<sshVars, netVars>>

\* SSHDriver.put / SSHDriver.get: subprocess.call of the copy tool
transfer(op, spawnOk, rc) ==
    /\ sshPc = "idle"
    /\ last' =
         IF ~CheckActive(sshState) THEN Call("ssh", op, "InactiveDriverError", {})
         ELSE IF ~spawnOk THEN Call("ssh", op, "ExecutionError", {})
         ELSE IF rc # 0 THEN [Call("ssh", op, "ExecutionError", {"scp"}) EXCEPT !.rc = rc]
         ELSE Call("ssh", op, "ok", {"scp"})
    /\ UNCHANGED <<sshVars, netVars>>

put(spawnOk, rc) == transfer("put", spawnOk, rc)

get(spawnOk, rc) == transfer("get", spawnOk, rc)

\* SSHDriver.get_status
get_status ==
    /\ sshPc = "idle"
    /\ last' = [Call("ssh", "get_status", "ok", {}) EXCEPT !.rc = 1]
    /\ UNCHANGED <<sshVars, netVars>>

\* the keepalive child ("ssh ... cat") exits on its own
KeepaliveExits ==
    /\ keepalive = "running"
    /\ keepalive' = "exited"
    /\ UNCHANGED <<sshState, sshPc, kaOrphan, control, tmpdir, dirs, masters, extMaster, netVars, last>>

\* a control channel of the user's own configuration comes up or goes away
ExtMasterChanges ==
    /\ extMaster' = ~extMaster
    /\ UNCHANGED <<sshState, sshPc, keepalive, kaOrphan, control, tmpdir, dirs, masters, netVars, last>>

\* a master started by this driver ends (ControlPersist expiry, lost link)
MasterExits(d) ==
    /\ d \in masters
    /\ masters' = masters \ {d}
    /\ UNCHANGED <<sshState, sshPc, keepalive, kaOrphan, control, tmpdir, dirs, extMaster, netVars, last>>

SshNext ==
    \/ \E conn \in ConnOutcomes, spawnOk \in BOOLEAN : on_activate(conn, spawnOk)
    \/ \E late \in BOOLEAN : ConnectionExits(late)
    \/ connect_wait_returns
    \/ \E kaTimeout \in BOOLEAN, waitTimeout \in BOOLEAN : on_deactivate(kaTimeout, waitTimeout)
    \/ \E spawnOk \in BOOLEAN, timedOut \in BOOLEAN, rc \in {0, 1} : run(spawnOk, timedOut, rc)
    \/ \E spawnOk \in BOOLEAN, rc \in {0, 1} : put(spawnOk, rc)
    \/ \E spawnOk \in BOOLEAN, rc \in {0, 1} : get(spawnOk, rc)
    \/ get_status
    \/ KeepaliveExits
    \/ ExtMasterChanges
    \/ \E d \in Dirs : MasterExits(d)

(***************************************************************************)
(* RawNetworkInterfaceDriver                                               *)
(***************************************************************************)

Handle(kind) == IF kind = "record" THEN record_handle ELSE replay_handle

\* subprocess.Popen: the child gets an identity no existing child has
FreshPids == {p \in Pids : proc[p].status = "unborn"}
FreshPid == CHOOSE p \in FreshPids : \A q \in FreshPids : p <= q

Spawned(kind, pipe) ==
    [proc EXCEPT ![FreshPid] = [status |-> "running", kind |-> kind, pipe |-> pipe,
                                termed |-> FALSE, rc |-> 0]]

\* _set_interface: check_call of the wrapper, then wait_for_interface_state
SetInterfaceRes(state, ipOk, linkFollows) ==
    IF ~ipOk THEN "CalledProcessError"
    ELSE IF linkFollows \/ operstate = state THEN "ok"
    ELSE "TimeoutError"

SetInterfaceFx(ipOk) == IF ipOk THEN {"ip", "cat"} ELSE {"ip"}

SetInterfaceLink(state, ipOk, linkFollows) ==
    IF ipOk /\ linkFollows THEN state ELSE operstate

\* RawNetworkInterfaceDriver.on_activate, called by activate()
iface_on_activate(ipOk, linkFollows) ==
    /\ netPc = Idle
    /\ ~CheckActive(netState)
    /\ LET res == SetInterfaceRes("up", ipOk, linkFollows) IN
          /\ last' = Call("net", "activate", res, SetInterfaceFx(ipOk))
          /\ netState' = IF res = "ok" THEN "ACTIVE" ELSE netState
    /\ operstate' = SetInterfaceLink("up", ipOk, linkFollows)
    /\ UNCHANGED <<netPc, record_handle, replay_handle, proc, ifaceNet, recScopes, repScopes, sshVars>>

\* RawNetworkInterfaceDriver.on_deactivate, called by deactivate()
iface_on_deactivate(ipOk, linkFollows) ==
    /\ netPc = Idle
    /\ LET res == SetInterfaceRes("down", ipOk, linkFollows) IN
          /\ last' = Call("net", "deactivate", res, SetInterfaceFx(ipOk))
          /\ netState' = IF res = "ok" THEN "INACTIVE" ELSE netState
    /\ operstate' = SetInterfaceLink("down", ipOk, linkFollows)
    /\ UNCHANGED <<netPc, record_handle, replay_handle, proc, ifaceNet, recScopes, repScopes, sshVars>>

\* set_interface_up / set_interface_down
set_interface(state, ipOk, linkFollows) ==
    /\ netPc = Idle
    /\ IF ~CheckActive(netState)
       THEN /\ last' = Call("net", "set_interface", "InactiveDriverError", {})
            /\ UNCHANGED operstate
       ELSE /\ last' = Call("net", "set_interface", SetInterfaceRes(state, ipOk, linkFollows),
                            SetInterfaceFx(ipOk))
            /\ operstate' = SetInterfaceLink(state, ipOk, linkFollows)
    /\ UNCHANGED <<netState, netPc, record_handle, replay_handle, proc, ifaceNet, recScopes, repScopes, sshVars>>

\* wait_for_interface_state: polls operstate with "cat" until it matches
wait_for_interface_state(state) ==
    /\ netPc = Idle
    /\ last' = Call("net", "wait_for_interface_state",
                    IF operstate = state THEN "ok" ELSE "TimeoutError", {"cat"})
    /\ UNCHANGED <<netVars, sshVars>>

\* the decorated methods that run one or two query tools and keep no state
\* (get_address, get_ethtool_settings and get_ethtool_eee_settings have the
\* shape of get_statistics)
IntrospectOps == {"set_interface_link_mode", "get_statistics"}

introspect(op, toolOk) ==
    /\ netPc = Idle
    /\ last' = IF ~CheckActive(netState) THEN Call("net", op, "InactiveDriverError", {})
               ELSE Call("net", op, IF toolOk THEN "ok" ELSE "CalledProcessError", {"query"})
    /\ UNCHANGED <<netVars, sshVars>>

\* start_record without its assertion on self._record_handle
StartRecordRes_NoAssert(live, openOk, spawnOk) ==
    IF ~CheckActive(netState) THEN "InactiveDriverError"
    ELSE IF ~live /\ ~openOk THEN "OSError"
    ELSE IF ~spawnOk THEN "OSError"
    ELSE "ok"

\* start_record: live is "filename is None"
StartRecordRes(live, openOk, spawnOk) ==
    IF ~CheckActive(netState) THEN "InactiveDriverError"
    ELSE IF record_handle # None THEN "AssertionError"
    ELSE IF ~live /\ ~openOk THEN "OSError"
    ELSE IF ~spawnOk THEN "OSError"
    ELSE "ok"

StartRecordFx(live, openOk, spawnOk) ==
    IF ~CheckActive(netState) \/ record_handle # None THEN {}
    ELSE IF live THEN (IF spawnOk THEN {"tcpdump"} ELSE {})
    ELSE IF ~openOk THEN {}
    ELSE IF spawnOk THEN {"open", "tcpdump"} ELSE {"open"}

start_record(live, openOk, spawnOk) ==
    /\ netPc = Idle
    /\ LET res == StartRecordRes(live, openOk, spawnOk) IN
          /\ res = "ok" => FreshPids # {}
          /\ last' = [Call("net", "start_record", res, StartRecordFx(live, openOk, spawnOk))
                        EXCEPT !.pid = IF res = "ok" THEN FreshPid ELSE None,
                               !.live = (res = "ok" /\ live)]
          /\ record_handle' = IF res = "ok" THEN FreshPid ELSE record_handle
          /\ proc' = IF res = "ok" THEN Spawned("record", live) ELSE proc
    /\ UNCHANGED <<netState, netPc, replay_handle, operstate, ifaceNet, recScopes, repScopes, sshVars>>

\* start_replay asserting that neither a replay nor a record is outstanding
StartReplayRes_SharedSlot(srcOk, spawnOk) ==
    IF ~CheckActive(netState) THEN "InactiveDriverError"
    ELSE IF replay_handle # None \/ record_handle # None THEN "AssertionError"
    ELSE IF ~srcOk THEN (IF ifaceNet THEN "ExecutionError" ELSE "OSError")
    ELSE IF ~spawnOk THEN "OSError"
    ELSE "ok"

\* start_replay: srcOk is ManagedFile.sync_to_resource (remote interface) or
\* open(filename, "rb") (local interface) succeeding
StartReplayRes(srcOk, spawnOk) ==
    IF ~CheckActive(netState) THEN "InactiveDriverError"
    ELSE IF replay_handle # None THEN "AssertionError"
    ELSE IF ~srcOk THEN (IF ifaceNet THEN "ExecutionError" ELSE "OSError")
    ELSE IF ~spawnOk THEN "OSError"
    ELSE "ok"

\* start_replay handing the local file to the replay tool on a remote
\* interface without synchronizing it
StartReplayFx_NoSync(srcOk, spawnOk) ==
    IF ~CheckActive(netState) \/ replay_handle # None THEN {}
    ELSE (IF ~ifaceNet /\ srcOk THEN {"open"} ELSE {})
         \cup (IF srcOk /\ spawnOk THEN {"tcpreplay"} ELSE {})

\* start_replay, lines 194-202: ManagedFile.sync_to_resource or open(), then
\* Popen
StartReplayFx(srcOk, spawnOk) ==
    IF ~CheckActive(netState) \/ replay_handle # None THEN {}
    ELSE (IF ifaceNet THEN {"sync"} ELSE IF srcOk THEN {"open"} ELSE {})
         \cup (IF srcOk /\ spawnOk THEN {"tcpreplay"} ELSE {})

start_replay(srcOk, spawnOk) ==
    /\ netPc = Idle
    /\ LET res == StartReplayRes(srcOk, spawnOk) IN
          /\ res = "ok" => FreshPids # {}
          /\ last' = [Call("net", "start_replay", res, StartReplayFx(srcOk, spawnOk))
                        EXCEPT !.pid = IF res = "ok" THEN FreshPid ELSE None]
          /\ replay_handle' = IF res = "ok" THEN FreshPid ELSE replay_handle
          /\ proc' = IF res = "ok" THEN Spawned("replay", FALSE) ELSE proc
    /\ UNCHANGED <<netState, netPc, record_handle, operstate, ifaceNet, recScopes, repScopes, sshVars>>

\* the body of stop_record / stop_replay up to the first wait of _stop;
\* exc is the exception in flight when the call runs in a finally clause
StopCall(kind, bounded, op, exc, fx) ==
    IF ~CheckActive(netState)
    THEN /\ last' = Call("net", op, "InactiveDriverError", fx)
         /\ UNCHANGED <<netPc, record_handle, replay_handle>>
    ELSE IF Handle(kind) = None
    THEN /\ last' = Call("net", op, "AssertionError", fx)
         /\ UNCHANGED <<netPc, record_handle, replay_handle>>
    ELSE /\ last' = [Call("net", op, "pending", fx) EXCEPT !.pid = Handle(kind),
                                                           !.live = proc[Handle(kind)].pipe]
         /\ netPc' = [at |-> "wait1", kind |-> kind, bounded |-> bounded, exc |-> exc]
         /\ UNCHANGED <<record_handle, replay_handle>>

\* stop_record(timeout=...): bounded is "timeout is not None"
stop_record(bounded) ==
    /\ netPc = Idle
    /\ StopCall("record", bounded, "stop_record", "none", {})
    /\ UNCHANGED <<netState, proc, operstate, ifaceNet, recScopes, repScopes, sshVars>>

\* stop_replay(timeout=...)
stop_replay(bounded) ==
    /\ netPc = Idle
    /\ StopCall("replay", bounded, "stop_replay", "none", {})
    /\ UNCHANGED <<netState, proc, operstate, ifaceNet, recScopes, repScopes, sshVars>>

\* no child: a slot of the process table that is free (again)
Unborn == [status |-> "unborn", kind |-> "none", pipe |-> FALSE, termed |-> FALSE, rc |-> 0]

\* the driver drops its reference to child h: a child that has exited is
\* gone with it, one that still runs keeps running unreferenced
Dropped(h) == IF proc[h].status = "exited" THEN [proc EXCEPT ![h] = Unborn] ELSE proc

\* stop_record / stop_replay clearing the handle after the try block, not in
\* a finally clause: a stop that raises keeps the handle
StopDone_NoFinally(stopRes) ==
    /\ last' = [last EXCEPT !.res = IF stopRes # "ok" THEN stopRes
                                     ELSE IF netPc.exc # "none" THEN netPc.exc
                                     ELSE "ok",
                            !.rc = proc[Handle(netPc.kind)].rc]
    /\ record_handle' = IF netPc.kind = "record" /\ stopRes = "ok" THEN None ELSE record_handle
    /\ replay_handle' = IF netPc.kind = "replay" /\ stopRes = "ok" THEN None ELSE replay_handle
    /\ proc' = IF stopRes = "ok" THEN Dropped(Handle(netPc.kind)) ELSE proc
    /\ netPc' = Idle

\* the finally clause of stop_record / stop_replay, and the end of the call
StopDone(stopRes) ==
    /\ last' = [last EXCEPT !.res = IF stopRes # "ok" THEN stopRes
                                     ELSE IF netPc.exc # "none" THEN netPc.exc
                                     ELSE "ok",
                            !.rc = proc[Handle(netPc.kind)].rc]
    /\ record_handle' = IF netPc.kind = "record" THEN None ELSE record_handle
    /\ replay_handle' = IF netPc.kind = "replay" THEN None ELSE replay_handle
    /\ proc' = Dropped(Handle(netPc.kind))
    /\ netPc' = Idle

\* _stop polling the child instead of waiting for it
FirstWaitOver_NoWait(h) == TRUE

\* proc.communicate(timeout=timeout), line 50, returns: the child has exited
FirstWaitOver(h) == proc[h].status = "exited"

\* _stop without its second communicate(): terminate() and carry on
SecondWaitOver_NoWait(h) == TRUE

\* proc.communicate(), line 53, returns: the child has exited
SecondWaitOver(h) == proc[h].status = "exited"

\* _stop returning whatever the exit status is
ExitStatusRes_Ignored(h) == "ok"

\* _stop, lines 56-61: a non-zero returncode raises CalledProcessError with
\* cmd=proc.args and stderr=err
ExitStatusRes(h) == IF proc[h].rc # 0 THEN "CalledProcessError" ELSE "ok"

\* _stop, lines 50 and 56: the first communicate() returns, the child exited
stop_wait_returns ==
    /\ netPc.at = "wait1"
    /\ FirstWaitOver(Handle(netPc.kind))
    /\ StopDone(ExitStatusRes(Handle(netPc.kind)))
    /\ UNCHANGED <<netState, operstate, ifaceNet, recScopes, repScopes, sshVars>>

\* _stop, lines 51-52: communicate(timeout) expires, proc.terminate()
stop_wait_expires ==
    /\ netPc.at = "wait1"
    /\ netPc.bounded
    /\ netPc' = [netPc EXCEPT !.at = "wait2"]
    /\ proc' = [proc EXCEPT ![Handle(netPc.kind)].termed =
                   (@ \/ proc[Handle(netPc.kind)].status = "running")]
    /\ last' = [last EXCEPT !.t1 = TRUE, !.fx = @ \cup {"terminate"}]
    /\ UNCHANGED <<netState, record_handle, replay_handle, operstate, ifaceNet, recScopes, repScopes, sshVars>>

\* stop_record re-raising every timeout
TimeoutSwallowed_Never == FALSE

\* the except clause of stop_record, lines 152-156
TimeoutSwallowed == netPc.kind = "record" /\ record_handle # None /\ proc[record_handle].pipe

\* _stop, lines 53-54: the unbounded communicate() returns, the timeout is raised again
stop_terminated ==
    /\ netPc.at = "wait2"
    /\ SecondWaitOver(Handle(netPc.kind))
    /\ StopDone(IF TimeoutSwallowed THEN "ok" ELSE "TimeoutExpired")
    /\ UNCHANGED <<netState, operstate, ifaceNet, recScopes, repScopes, sshVars>>

\* record(): entering the scope. hasBound is "count or timeout"
record_enter(live, hasBound, openOk, spawnOk) ==
    /\ netPc = Idle
    /\ Len(recScopes) < MaxNest
    /\ LET res == StartRecordRes(live, openOk, spawnOk)
           fx == StartRecordFx(live, openOk, spawnOk)
       IN IF ~hasBound
          THEN /\ last' = Call("net", "record", "AssertionError", {})
               /\ UNCHANGED <<netPc, record_handle, replay_handle, proc, recScopes>>
          ELSE IF res = "ok"
          THEN /\ FreshPids # {}
               /\ last' = [Call("net", "record", "ok", fx) EXCEPT !.pid = FreshPid, !.live = live]
               /\ record_handle' = FreshPid
               /\ proc' = Spawned("record", live)
               /\ recScopes' = Append(recScopes, live)
               /\ UNCHANGED <<netPc, replay_handle>>
          ELSE /\ StopCall("record", live, "record", res, fx)
               /\ UNCHANGED <<proc, recScopes>>
    /\ UNCHANGED <<netState, operstate, ifaceNet, repScopes, sshVars>>

\* record(): leaving the scope, by return or by an exception of the body
record_exit(bodyRaised) ==
    /\ netPc = Idle
    /\ recScopes # <<>>
    /\ recScopes' = SubSeq(recScopes, 1, Len(recScopes) - 1)
    /\ StopCall("record", recScopes[Len(recScopes)], "record_exit",
                IF bodyRaised THEN "BodyError" ELSE "none", {})
    /\ UNCHANGED <<netState, proc, operstate, ifaceNet, repScopes, sshVars>>

\* replay(): entering the scope. bounded is "timeout is not None"
replay_enter(bounded, srcOk, spawnOk) ==
    /\ netPc = Idle
    /\ Len(repScopes) < MaxNest
    /\ LET res == StartReplayRes(srcOk, spawnOk)
           fx == StartReplayFx(srcOk, spawnOk)
       IN IF res = "ok"
          THEN /\ FreshPids # {}
               /\ last' = [Call("net", "replay", "ok", fx) EXCEPT !.pid = FreshPid]
               /\ replay_handle' = FreshPid
               /\ proc' = Spawned("replay", FALSE)
               /\ repScopes' = Append(repScopes, bounded)
               /\ UNCHANGED <<netPc, record_handle>>
          ELSE /\ StopCall("replay", bounded, "replay", res, fx)
               /\ UNCHANGED <<proc, repScopes>>
    /\ UNCHANGED <<netState, operstate, ifaceNet, recScopes, sshVars>>

\* replay(): leaving the scope
replay_exit(bodyRaised) ==
    /\ netPc = Idle
    /\ repScopes # <<>>
    /\ repScopes' = SubSeq(repScopes, 1, Len(repScopes) - 1)
    /\ StopCall("replay", repScopes[Len(repScopes)], "replay_exit",
                IF bodyRaised THEN "BodyError" ELSE "none", {})
    /\ UNCHANGED <<netState, proc, operstate, ifaceNet, recScopes, sshVars>>

\* the capture handles the driver associates with an artifact on the remote
\* host: start_record keeps self._record_handle and nothing else, and writes
\* the capture to the local file it opened, whatever the interface is
record_artifacts == {}

\* get_record(handle, local_path): fetches the remote artifact of the capture
\* h to the local path; a handle the driver does not track is an invariant
\* violation
get_record(h) ==
    /\ netPc = Idle
    /\ proc[h].kind = "record"
    /\ last' = [Call("net", "get_record",
                      IF h \in record_artifacts THEN "ok" ELSE "AssertionError",
                      IF h \in record_artifacts THEN {"fetch"} ELSE {})
                   EXCEPT !.pid = h]
    /\ UNCHANGED <<netVars, sshVars>>

\* a capture or replay child exits, on its own or after the signal
ProcExits(p, rc) ==
    /\ proc[p].status = "running"
    /\ proc' = [proc EXCEPT ![p].status = "exited", ![p].rc = rc, ![p].termed = FALSE]
    /\ UNCHANGED <<netState, netPc, record_handle, replay_handle, operstate, ifaceNet, recScopes, repScopes, sshVars, last>>

NetNext ==
    \/ \E ipOk \in BOOLEAN, linkFollows \in BOOLEAN : iface_on_activate(ipOk, linkFollows)
    \/ \E ipOk \in BOOLEAN, linkFollows \in BOOLEAN : iface_on_deactivate(ipOk, linkFollows)
    \/ \E state \in {"up", "down"}, ipOk \in BOOLEAN, linkFollows \in BOOLEAN :
          set_interface(state, ipOk, linkFollows)
    \/ \E state \in {"up", "down"} : wait_for_interface_state(state)
    \/ \E op \in IntrospectOps, toolOk \in BOOLEAN : introspect(op, toolOk)
    \/ \E live \in BOOLEAN, openOk \in BOOLEAN, spawnOk \in BOOLEAN : start_record(live, openOk, spawnOk)
    \/ \E srcOk \in BOOLEAN, spawnOk \in BOOLEAN : start_replay(srcOk, spawnOk)
    \/ \E bounded \in BOOLEAN : stop_record(bounded)
    \/ \E bounded \in BOOLEAN : stop_replay(bounded)
    \/ \E h \in Pids : get_record(h)
    \/ stop_wait_returns
    \/ stop_wait_expires
    \/ stop_terminated
    \/ \E live \in BOOLEAN, hasBound \in BOOLEAN, openOk \in BOOLEAN, spawnOk \in BOOLEAN :
          record_enter(live, hasBound, openOk, spawnOk)
    \/ \E bodyRaised \in BOOLEAN : record_exit(bodyRaised)
    \/ \E bounded \in BOOLEAN, srcOk \in BOOLEAN, spawnOk \in BOOLEAN : replay_enter(bounded, srcOk, spawnOk)
    \/ \E bodyRaised \in BOOLEAN : replay_exit(bodyRaised)
    \/ \E p \in Pids, rc \in {0, 1} : ProcExits(p, rc)

SshInit ==
    /\ sshState = "BOUND"
    /\ sshPc = "idle"
    /\ keepalive = "None"
    /\ kaOrphan = FALSE
    /\ control = Unset
    /\ tmpdir = Unset
    /\ dirs = {}
    /\ masters = {}

NetInit ==
    /\ netState = "BOUND"
    /\ netPc = Idle
    /\ record_handle = None
    /\ replay_handle = None
    /\ proc = [p \in Pids |-> Unborn]
    /\ operstate = "down"
    /\ recScopes = <<>>
    /\ repScopes = <<>>

\* the SSHDriver of a target, with or without a control channel of the
\* user's own to the host
InitSSH ==
    /\ SshInit
    /\ NetInit
    /\ extMaster \in BOOLEAN
    /\ ifaceNet = FALSE
    /\ last = Call("none", "none", "ok", {})

\* the RawNetworkInterfaceDriver of a target, bound to a local or to a
\* remote interface
InitNet ==
    /\ SshInit
    /\ NetInit
    /\ extMaster = FALSE
    /\ ifaceNet \in BOOLEAN
    /\ last = Call("none", "none", "ok", {})

SpecSSH == InitSSH /\ [][SshNext]_vars

SpecNet == InitNet /\ [][NetNext]_vars

\* a child that was sent the termination signal exits
TermedExits(p) == \E rc \in {0, 1} : proc[p].termed /\ ProcExits(p, rc)

\* the calls of the RawNetworkInterfaceDriver that start or stop a child or
\* change the activation state, and the children themselves; the calls left
\* out (interface state, link mode, statistics, get_record) touch neither a
\* handle nor a child and, the driver being synchronous, cannot run while a
\* stop is waiting
LifecycleNext ==
    \/ \E ipOk \in BOOLEAN, linkFollows \in BOOLEAN : iface_on_activate(ipOk, linkFollows)
    \/ \E ipOk \in BOOLEAN, linkFollows \in BOOLEAN : iface_on_deactivate(ipOk, linkFollows)
    \/ \E live \in BOOLEAN, openOk \in BOOLEAN, spawnOk \in BOOLEAN : start_record(live, openOk, spawnOk)
    \/ \E srcOk \in BOOLEAN, spawnOk \in BOOLEAN : start_replay(srcOk, spawnOk)
    \/ \E bounded \in BOOLEAN : stop_record(bounded)
    \/ \E bounded \in BOOLEAN : stop_replay(bounded)
    \/ stop_wait_returns
    \/ stop_wait_expires
    \/ stop_terminated
    \/ \E live \in BOOLEAN, hasBound \in BOOLEAN, openOk \in BOOLEAN, spawnOk \in BOOLEAN :
          record_enter(live, hasBound, openOk, spawnOk)
    \/ \E bodyRaised \in BOOLEAN : record_exit(bodyRaised)
    \/ \E bounded \in BOOLEAN, srcOk \in BOOLEAN, spawnOk \in BOOLEAN : replay_enter(bounded, srcOk, spawnOk)
    \/ \E bodyRaised \in BOOLEAN : replay_exit(bodyRaised)
    \/ \E p \in Pids, rc \in {0, 1} : ProcExits(p, rc)

\* the lifecycle calls with the scheduling a stop relies on: a finite timeout
\* of communicate() runs out, a communicate() whose child has exited returns,
\* and a child that was sent the termination signal exits. A child that was
\* sent no signal need never exit.
SpecStopFair ==
    /\ InitNet
    /\ [][LifecycleNext]_vars
    /\ WF_vars(stop_wait_returns)
    /\ WF_vars(stop_wait_expires)
    /\ WF_vars(stop_terminated)
    /\ \A p \in Pids : WF_vars(TermedExits(p))

(***************************************************************************)
(* Properties                                                              *)
(***************************************************************************)

\* the capability operations of the two drivers (the scoped wrappers and
\* the activation hooks aside)
CapabilityOps ==
    {"run", "put", "get", "get_status",
     "start_record", "stop_record", "start_replay", "stop_replay",
     "set_interface", "wait_for_interface_state",
     "set_interface_link_mode", "get_statistics"}

\* C1: a capability operation invoked while the driver is not ACTIVE fails
\* with the inactive-driver error and runs no external process.
C1_InactiveCallFailsWithoutSpawn ==
    (last.op \in CapabilityOps /\ ~last.active)
        => (last.res = "InactiveDriverError" /\ last.fx = {})

\* C2: an activation whose master check succeeds creates no scratch
\* directory and starts no master of its own, and deactivating the session it
\* set up issues no control-channel exit request and calls no directory
\* removal.
C2_ReusedChannelOwnsNothing ==
    /\ (last.op = "activate" /\ last.ext)
           => last.fx \cap {"mkdtemp", "ssh-master"} = {}
    /\ (last.op = "deactivate" /\ last.active /\ last.ctl = NoControl)
           => last.fx \cap {"ssh-exit", "rmtree"} = {}

\* C3: start_record with a record outstanding, and start_replay with a replay
\* outstanding, on an active driver raise AssertionError, open, synchronise
\* and spawn nothing, and leave the outstanding handle as it was.
C3_SecondStartFailsFirst ==
    /\ (last.op = "start_record" /\ last.active /\ last.rec # None)
           => /\ last.res = "AssertionError"
              /\ last.fx = {}
              /\ last.pid = None
              /\ record_handle = last.rec
    /\ (last.op = "start_replay" /\ last.active /\ last.rep # None)
           => /\ last.res = "AssertionError"
              /\ last.fx = {}
              /\ last.pid = None
              /\ replay_handle = last.rep

C3_Witness ==
    /\ last.op = "start_record"
    /\ last.active
    /\ last.rec # None
    /\ proc[record_handle].status = "running"

Running(kind) == {p \in Pids : proc[p].status = "running" /\ proc[p].kind = kind}

\* C4: at most one capture child and at most one replay child of the driver
\* is alive, and a child that is alive is the one the handle of its kind
\* refers to (a handle is cleared only once its child has exited).
C4_AtMostOneChildPerKind ==
    \A kind \in {"record", "replay"} :
        /\ Cardinality(Running(kind)) <= 1
        /\ \A p \in Running(kind) : Handle(kind) = p

C4_Witness ==
    /\ last.op \in {"stop_record", "record_exit"}
    /\ last.t1
    /\ last.res \in {"ok", "TimeoutExpired"}
    /\ record_handle = None
    /\ replay_handle # None
    /\ proc[replay_handle].status = "running"

\* C5: a stop_record whose first wait expired returns normally when the
\* capture streams to a pipe (no destination file); when the capture writes
\* to a file the call has called terminate(), waited for the child to exit
\* and raises the TimeoutExpired of the first wait.
C5_TimeoutSwallowedOnlyForLiveStream ==
    /\ (last.op = "stop_record" /\ last.t1 /\ netPc.at = "wait2")
           => /\ "terminate" \in last.fx
              /\ proc[last.pid].status = "running" => proc[last.pid].termed
    /\ (last.op = "stop_record" /\ last.t1 /\ netPc = Idle)
           => /\ "terminate" \in last.fx
              /\ proc[last.pid].status # "running"
              /\ last.res = IF last.live THEN "ok" ELSE "TimeoutExpired"

C5_Witness ==
    /\ last.op = "stop_record"
    /\ last.t1
    /\ netPc = Idle
    /\ ~last.live
    /\ last.res = "TimeoutExpired"

\* C6: deactivating a session that is already deactivated (INACTIVE, no
\* keepalive) raises nothing, stops no process, issues no exit request and
\* removes no directory.
C6_SecondDeactivateIsNoOp ==
    (last.op = "deactivate" /\ ~last.active /\ last.ka = "None" /\ sshState = "INACTIVE")
        => (last.res = "ok" /\ last.fx = {})

\* what on_deactivate would raise if it were called in the current state
OnDeactivateRes(kaTimeout, waitTimeout) ==
    IF CleanupRes # "ok" THEN CleanupRes ELSE StopKeepaliveRes(kaTimeout, waitTimeout)

\* C7: after an activation that failed, deactivate() does not raise, and no
\* master started by the failed activation is alive outside the control path
\* the driver holds.
C7_FailedActivationIsDeactivatable ==
    (last.op = "activate" /\ last.res \notin {"ok", "pending"})
        => /\ \A kaTimeout \in BOOLEAN, waitTimeout \in BOOLEAN :
                  OnDeactivateRes(kaTimeout, waitTimeout) = "ok"
           /\ masters \subseteq {control}

\* C8: right after a deactivation of the interface driver completed, no
\* capture or replay child it started is alive and no handle is outstanding.
C8_DeactivateKillsChildren ==
    (last.drv = "net" /\ last.op = "deactivate" /\ last.res = "ok")
        => /\ Running("record") = {}
           /\ Running("replay") = {}
           /\ record_handle = None
           /\ replay_handle = None

\* C9: run() on an active session whose keepalive has exited raises
\* ExecutionError without spawning the remote command; run() changes nothing
\* of the session, and an exited keepalive stays exited until a deactivation.
C9_DeadKeepaliveFailsRun ==
    /\ [](  (last.op = "run" /\ last.active /\ last.ka = "exited")
                => (last.res = "ExecutionError" /\ last.fx = {}))
    /\ [][  /\ (last'.op = "run" /\ last' # last) => UNCHANGED sshVars
            /\ (keepalive = "exited" /\ keepalive' # "exited")
                   => (last'.op = "deactivate" /\ keepalive' = "None")
         ]_vars

C9_Witness ==
    /\ last.op = "run"
    /\ last.active
    /\ last.ka = "exited"
    /\ last.res = "ExecutionError"
    /\ sshState = "ACTIVE"

\* C10: put() and get() on an active session whose keepalive has exited fail
\* without running the copy tool.
C10_DeadKeepaliveFailsTransfer ==
    (last.op \in {"put", "get"} /\ last.active /\ last.ka = "exited")
        => (last.res = "ExecutionError" /\ last.fx = {})

\* C11: whenever a record() or replay() scope has been left, by return or by
\* an exception of the body, no capture (replay) child is running and the
\* handle is cleared, so that a new start is permitted.
C11_ScopeExitStops ==
    /\ (last.op = "record_exit" /\ last.res # "pending")
           => (record_handle = None /\ Running("record") = {})
    /\ (last.op = "replay_exit" /\ last.res # "pending")
           => (replay_handle = None /\ Running("replay") = {})

C13_FailedConnectLeavesNothing ==
    (last.op = "activate" /\ ~last.ext /\ last.conn \in {"exit_nonzero", "no_socket"})
        => /\ last.res = "ExecutionError"
           /\ "keepalive" \notin last.fx
           /\ keepalive = "None"
           /\ control = last.ctl
           /\ ~CheckActive(sshState)

C13_Witness ==
    /\ last.op = "activate"
    /\ last.conn = "no_socket"
    /\ last.res = "ExecutionError"
    /\ control = Unset

\* C14: once the bounded wait on the master connection process has expired,
\* the activation is able to complete with its error while the connection
\* process is still running.
C14_ConnectTimeoutBounded ==
    sshPc = "connect_wait" => ENABLED connect_wait_returns

\* C15: a capture started against a remote interface writes to no local
\* file and is tracked with its remote artifact, so that get_record on its
\* handle fetches that artifact; get_record on a handle that is not tracked
\* fails with an assertion-grade error and fetches nothing.
C15_RemoteCaptureIsTracked ==
    /\ (last.op \in {"start_record", "record"} /\ last.res = "ok" /\ ifaceNet)
           => (last.pid \in record_artifacts /\ "open" \notin last.fx)
    /\ (last.op = "get_record" /\ last.pid \in record_artifacts)
           => (last.res = "ok" /\ last.fx = {"fetch"})
    /\ (last.op = "get_record" /\ last.pid \notin record_artifacts)
           => (last.res = "AssertionError" /\ last.fx = {})

\* C16: on an active driver start_record succeeds only with no record
\* outstanding; stop_record with none outstanding fails with AssertionError,
\* signals nothing and waits for nothing; and once a stop_record that found
\* an outstanding process is over, however it ended, no record is
\* outstanding and start_record does not fail its assertion. The same
\* holds for start_replay and stop_replay.
C16_StartStopAlternate ==
    /\ (last.op = "start_record" /\ last.res = "ok") => last.rec = None
    /\ (last.op = "start_replay" /\ last.res = "ok") => last.rep = None
    /\ (last.op = "stop_record" /\ last.active /\ last.rec = None)
           => (last.res = "AssertionError" /\ last.fx = {} /\ netPc = Idle)
    /\ (last.op = "stop_replay" /\ last.active /\ last.rep = None)
           => (last.res = "AssertionError" /\ last.fx = {} /\ netPc = Idle)
    /\ (last.op = "stop_record" /\ last.rec # None /\ last.res \notin {"pending", "InactiveDriverError"})
           => /\ record_handle = None
              /\ \A live \in BOOLEAN, openOk \in BOOLEAN, spawnOk \in BOOLEAN :
                     StartRecordRes(live, openOk, spawnOk) # "AssertionError"
    /\ (last.op = "stop_replay" /\ last.rep # None /\ last.res \notin {"pending", "InactiveDriverError"})
           => /\ replay_handle = None
              /\ \A srcOk \in BOOLEAN, spawnOk \in BOOLEAN :
                     StartReplayRes(srcOk, spawnOk) # "AssertionError"

C16_Witness ==
    /\ last.op = "stop_replay"
    /\ last.rep # None
    /\ last.res = "TimeoutExpired"
    /\ replay_handle = None
    /\ StartReplayRes(TRUE, TRUE) = "ok"

RecordOps == {"start_record", "stop_record", "record", "record_exit"}
ReplayOps == {"start_replay", "stop_replay", "replay", "replay_exit"}

\* C17: start_replay never fails its assertion because of an outstanding
\* record, nor start_record because of an outstanding replay; and no step
\* of a record call, failing or not, changes the replay handle or the
\* replay child, nor a step of a replay call the record handle or the
\* record child.
C17_RecordReplayIndependent ==
    /\ [](/\ (last.op = "start_replay" /\ last.res = "AssertionError") => last.rep # None
          /\ (last.op = "start_record" /\ last.res = "AssertionError") => last.rec # None)
    /\ [][/\ (last' # last /\ last'.op \in RecordOps)
                => /\ replay_handle' = replay_handle
                   /\ replay_handle # None => proc'[replay_handle] = proc[replay_handle]
          /\ (last' # last /\ last'.op \in ReplayOps)
                => /\ record_handle' = record_handle
                   /\ record_handle # None => proc'[record_handle] = proc[record_handle]]_vars

C17_Witness ==
    /\ last.op = "start_replay"
    /\ last.res = "ok"
    /\ last.rec # None
    /\ record_handle = last.rec
    /\ proc[record_handle].status = "running"
    /\ proc[replay_handle].status = "running"

\* C18: when a stop_record or stop_replay that found an outstanding process
\* is over and the process ended with a non-zero status, the call raised:
\* CalledProcessError when the first wait returned, the TimeoutExpired of
\* the first wait when it expired; the one call that returns instead is a
\* stop_record of a live-stream capture whose first wait expired.
C18_NonZeroExitRaises ==
    (/\ last.op \in {"stop_record", "stop_replay"}
     /\ last.pid # None
     /\ last.res # "pending"
     /\ last.rc # 0)
        => \/ ~last.t1 /\ last.res = "CalledProcessError"
           \/ last.t1 /\ last.res = "TimeoutExpired"
           \/ last.t1 /\ last.res = "ok" /\ last.op = "stop_record" /\ last.live

C18_Witness ==
    /\ last.op = "stop_replay"
    /\ last.rc # 0
    /\ ~last.t1
    /\ last.res = "CalledProcessError"

\* C19: a deactivation of a session with a control channel of its own
\* issues the exit request and then removes the scratch directory, also when
\* stopping the keepalive raised; on an active session with a keepalive the
\* keepalive is closed (and killed on timeout) before the exit request, the
\* scratch directory is gone afterwards, and the call raises only what
\* stopping the keepalive raised, never because the exit request failed.
C19_DeactivateOrder ==
    (last.op = "deactivate" /\ last.ctl \in Dirs)
        => /\ \E j, k \in 1..Len(last.seq) :
                  /\ j < k
                  /\ last.seq[j] = "ssh-exit"
                  /\ last.seq[k] = "rmtree"
                  /\ \A i \in 1..Len(last.seq) : last.seq[i] \in {"close", "kill"} => i < j
           /\ (last.active /\ last.ka # "None")
                  => /\ last.seq[1] = "close"
                     /\ keepalive = "None"
                     /\ last.ctl \notin dirs
                     /\ last.res \in {"ok", "TimeoutExpired"}
                     /\ last.res = "TimeoutExpired" => last.seq[2] = "kill"

C19_Witness ==
    /\ last.op = "deactivate"
    /\ last.ctl \in Dirs
    /\ last.active
    /\ last.seq = <<"close", "kill", "ssh-exit", "log", "rmtree">>
    /\ last.res = "ok"
    /\ last.ctl \notin dirs

\* C20: on a remote interface a start_replay that passed its guard and its
\* assertion synchronizes the source file, and spawns the replay tool only
\* after a synchronization that succeeded; when the synchronization failed
\* nothing is spawned, the handle stays None and a later start_replay does
\* not fail its assertion.
C20_SyncBeforeReplay ==
    (/\ last.op = "start_replay"
     /\ ifaceNet
     /\ last.active
     /\ last.rep = None)
        => /\ "sync" \in last.fx
           /\ "open" \notin last.fx
           /\ last.res = "ExecutionError"
                  => /\ last.fx = {"sync"}
                     /\ last.pid = None
                     /\ replay_handle = None
                     /\ Running("replay") = {}
                     /\ CheckActive(netState) => StartReplayRes(TRUE, TRUE) = "ok"

C20_Witness ==
    /\ last.op = "start_replay"
    /\ ifaceNet
    /\ last.res = "ExecutionError"
    /\ last.fx = {"sync"}
    /\ replay_handle = None

\* C21: a stop_record or stop_replay with a finite timeout that waits for
\* its process eventually completes, given that a process that was sent the
\* termination signal exits; and whenever a stop that waits for a process
\* completes, bounded or not, that process has exited.
C21_BoundedStopCompletes ==
    /\ (netPc.at = "wait1" /\ netPc.bounded) ~> (netPc = Idle)
    /\ [][(netPc.at \in {"wait1", "wait2"} /\ netPc' = Idle)
              => proc[Handle(netPc.kind)].status = "exited"]_vars

C21_Witness ==
    /\ last.op = "stop_replay"
    /\ last.t1
    /\ "terminate" \in last.fx
    /\ last.res = "TimeoutExpired"
    /\ netPc = Idle
    /\ replay_handle = None

\* C22: entering record() on an active driver while a record is outstanding
\* fails its assertion and nothing else happens: the call waits for no
\* process, sends no signal, and the handle still refers to the earlier
\* process. The same holds for replay() while a replay is outstanding.
C22_FailedEntryKeepsOutstanding ==
    /\ (last.op = "record" /\ last.active /\ last.rec # None)
           => /\ netPc = Idle
              /\ last.res = "AssertionError"
              /\ "terminate" \notin last.fx
              /\ record_handle = last.rec
    /\ (last.op = "replay" /\ last.active /\ last.rep # None)
           => /\ netPc = Idle
              /\ last.res = "AssertionError"
              /\ "terminate" \notin last.fx
              /\ replay_handle = last.rep
====
